---- MODULE Spec2Model ----
(***************************************************************************)
(* Shipping discount engine (app/shipping): the TransactionProcessor, the  *)
(* discount rules, the discount correction rule and the helpers they use.  *)
(*                                                                         *)
(* Decimal amounts are integers (Decimal arithmetic is exact).  A date is  *)
(* [year, month]: the code reads no other part of a date.  A Python call   *)
(* either returns a value or raises: Return(v) / ReturnNone / Raise(e).    *)
(***************************************************************************)
EXTENDS Integers, Sequences, FiniteSets, TLC

VARIABLES
    shipping_plans,     \* TransactionProcessor._shipping_plans
    rules,              \* TransactionProcessor._rules
    correction_rules,   \* TransactionProcessor._correction_rules
    history,            \* TransactionProcessor._history
    transaction_obj,    \* process_transaction: transaction_obj of the last call
    sizes,              \* _get_largest_discount: what each rule call of the last call returned
    passed,             \* _get_largest_discount: the correct_discount calls of the last call
    discounts,          \* _get_largest_discount: the list discounts of the last call
    rule_history,       \* _get_largest_discount: the history each rule call of the last call was given
    result,             \* what the last process_transaction call returned or raised
    calls,              \* the raw transactions of the calls that returned, in call order
    in_flight,          \* per caller: its process_transaction call that has evaluated the rules and not yet appended
    overlapped,         \* some call evaluated its rules while another call was in flight
    call,               \* a direct call of a helper or a rule method: its arguments
    ret,                \* what the direct call returned or raised
    constructed         \* the rule constructor calls the direct call made, in call order

vars == <<shipping_plans, rules, correction_rules, history, transaction_obj,
          sizes, passed, discounts, rule_history, result, calls, in_flight,
          overlapped, call, ret, constructed>>

processor == <<shipping_plans, rules, correction_rules, history, transaction_obj,
               sizes, passed, discounts, rule_history, result, calls, in_flight,
               overlapped>>

-----------------------------------------------------------------------------
(* Bounds *)

MaxHistory == 3

-----------------------------------------------------------------------------
(* Python values *)

Return(v) == [raised |-> FALSE, exc |-> "", none |-> FALSE, value |-> v]

ReturnNone == [raised |-> FALSE, exc |-> "", none |-> TRUE, value |-> 0]

Raise(e) == [raised |-> TRUE, exc |-> e, none |-> FALSE, value |-> 0]

NoTransaction == [valid |-> FALSE]

NoCall == [fn |-> "none"]

\* the callers of process_transaction
Callers == {"c1", "c2"}

\* a direct call that has not returned yet
Pending == [raised |-> FALSE, exc |-> "pending", none |-> TRUE, value |-> 0]

Range(s) == {s[i] : i \in DOMAIN s}

Max(S) == CHOOSE m \in S : \A x \in S : x <= m

Min(S) == CHOOSE m \in S : \A x \in S : m <= x

RECURSIVE Sum(_)
Sum(s) == IF s = <<>> THEN 0 ELSE Head(s) + Sum(Tail(s))

-----------------------------------------------------------------------------
(* Data model *)

ShippingPlan(carrier, package_size, price) ==
    [carrier |-> carrier, package_size |-> package_size, price |-> price]

\* a record that keeps the reduced price as its price
DiscountTransaction_reduced(discount, price, transaction) ==
    [date |-> transaction.date, carrier |-> transaction.carrier,
     package_size |-> transaction.package_size, price |-> price - discount,
     discount |-> discount]

\* DiscountTransaction(discount=..., price=..., **transaction_obj.model_dump())
DiscountTransaction(discount, price, transaction) ==
    [date |-> transaction.date, carrier |-> transaction.carrier,
     package_size |-> transaction.package_size, price |-> price,
     discount |-> discount]

\* StringConstraints(strip_whitespace=True, ...)
strip(s) ==
    CASE s = " A" -> "A"
      [] s = " "  -> ""
      [] OTHER    -> s

\* datetime.date: the month of a date is 1..12
IsDate(d) == d.month \in 1..12

\* TransactionModel(**transaction): strings are stripped, then must be non-empty
TransactionModel(transaction) ==
    IF /\ strip(transaction.carrier) # ""
       /\ strip(transaction.package_size) # ""
       /\ IsDate(transaction.date)
    THEN Return([valid |-> TRUE, date |-> transaction.date,
                 carrier |-> strip(transaction.carrier),
                 package_size |-> strip(transaction.package_size)])
    ELSE Raise("ValidationError")

\* validate_iterable_annotations: get_origin of an Annotated[...] or of a date
\* is never an instance of Iterable, so no attribute is validated and nothing
\* is raised
validate_iterable_annotations(obj) == Return(obj)

-----------------------------------------------------------------------------
(* helpers.py.  kwargs is a function from attribute names to search values; *)
(* a search value is [callable |-> FALSE, v |-> value] or the callable      *)
(* lambda x: x.month == m, [callable |-> TRUE, month |-> m].                *)

Value(v) == [callable |-> FALSE, v |-> v]

MonthIs(m) == [callable |-> TRUE, month |-> m]

\* one search parameter against one attribute value (filter_objects 96-102)
Meets(value, search_value) ==
    IF search_value.callable
    THEN value.month = search_value.month
    ELSE value = search_value.v

\* find that stops at an element with any one of the searched values
find_any(x, kwargs) ==
    LET found == {i \in DOMAIN x :
                     \E search_name \in DOMAIN kwargs :
                        /\ search_name \in DOMAIN x[i]
                        /\ x[i][search_name] = kwargs[search_name].v}
    IN  IF found = {} THEN Raise("LookupError") ELSE Return(x[Min(found)])

\* find: the first element that has every searched attribute with its value
find(x, kwargs) ==
    IF DOMAIN kwargs = {}
    THEN Raise("TypeError")
    ELSE LET found == {i \in DOMAIN x :
                         \A search_name \in DOMAIN kwargs :
                            /\ search_name \in DOMAIN x[i]
                            /\ x[i][search_name] = kwargs[search_name].v}
         IN  IF found = {} THEN Raise("LookupError") ELSE Return(x[Min(found)])

\* the loop of filter_objects: walks x from its last index to its first and
\* deletes from the copy y every element that fails a search parameter
RECURSIVE filter_loop(_, _, _, _)
filter_loop(x, y, kwargs, i) ==
    IF i = 0
    THEN y
    ELSE LET keep == \A search_name \in DOMAIN kwargs :
                        Meets(x[i][search_name], kwargs[search_name])
         IN  filter_loop(x,
                         IF keep THEN y
                         ELSE SubSeq(y, 1, i - 1) \o SubSeq(y, i + 1, Len(y)),
                         kwargs, i - 1)

\* filter_objects: y = copy.copy(x); x itself is left as it is
filter_objects(x, kwargs) ==
    IF DOMAIN kwargs = {}
    THEN Raise("TypeError")
    ELSE Return(filter_loop(x, x, kwargs, Len(x)))

attributes_equal(x, kwargs) ==
    IF DOMAIN kwargs = {}
    THEN Raise("TypeError")
    ELSE Return(\A search_name \in DOMAIN kwargs :
                    x[search_name] = kwargs[search_name].v)

-----------------------------------------------------------------------------
(* rules.py: rule instances *)

MatchLowestPackagePrice(kwargs) ==
    [cls |-> "MatchLowestPackagePrice", transaction_type |-> kwargs]

EveryNShipmentIsFreeXTimesInAMonth(n, x_times, kwargs) ==
    [cls |-> "EveryNShipmentIsFreeXTimesInAMonth", n |-> n, x_times |-> x_times,
     transaction_type |-> kwargs]

MonthlyAccumulatedDiscountLimiter(limit) ==
    [cls |-> "MonthlyAccumulatedDiscountLimiter", limit |-> limit]

\* an object that implements the protocol's calculate_discount(transaction,
\* price, shipping_plans, history) and is no class of rules.py
SupportsDiscountCalculate == [cls |-> "SupportsDiscountCalculate"]

\* match_shipping_plan[0].price of the list as filter_objects left it, unsorted
lowest_price_unsorted(match_shipping_plan) ==
    match_shipping_plan[1].price

\* sorted(match_shipping_plan, key=lambda x: x.price)[0].price
lowest_price(match_shipping_plan) ==
    Min({match_shipping_plan[i].price : i \in DOMAIN match_shipping_plan})

\* calculate_discount that selects among the matching plans that are cheaper
\* than the transaction only
MatchLowestPackagePrice_calculate_discount_cheaper(self, transaction, plans, hist) ==
    LET equal == attributes_equal(transaction, self.transaction_type)
    IN  IF equal.raised THEN equal
        ELSE IF ~equal.value THEN Return(0)
        ELSE LET match_shipping_plan ==
                     SelectSeq(filter_objects(plans, self.transaction_type).value,
                               LAMBDA x : x.price < transaction.price)
             IN  IF "price" \notin DOMAIN transaction THEN Raise("AttributeError")
                 ELSE IF match_shipping_plan = <<>> THEN Raise("IndexError")
                 ELSE Return(transaction.price - lowest_price(match_shipping_plan))

\* MatchLowestPackagePrice.calculate_discount(self, transaction, shipping_plans,
\* history): the price it subtracts from is the attribute transaction.price
MatchLowestPackagePrice_calculate_discount(self, transaction, plans, hist) ==
    LET equal == attributes_equal(transaction, self.transaction_type)
    IN  IF equal.raised THEN equal
        ELSE IF ~equal.value THEN Return(0)
        ELSE LET match_shipping_plan ==
                     filter_objects(plans, self.transaction_type).value
             IN  IF "price" \notin DOMAIN transaction THEN Raise("AttributeError")
                 ELSE IF match_shipping_plan = <<>> THEN Raise("IndexError")
                 ELSE Return(transaction.price - lowest_price(match_shipping_plan))

\* similar_transactions[:: n]: the elements at 0-based positions 0, n, 2n, ...
slice_step(s, n) ==
    [i \in 1..((Len(s) + n - 1) \div n) |-> s[(i - 1) * n + 1]]

\* calculate_discount that counts the similar transactions of the month of
\* the transaction only
EveryNShipmentIsFreeXTimesInAMonth_calculate_discount_monthly(self, transaction, plans, hist) ==
    LET equal == attributes_equal(transaction, self.transaction_type)
    IN  IF equal.raised THEN equal
        ELSE IF ~equal.value THEN Return(0)
        ELSE LET similar_transactions ==
                     filter_objects(
                         filter_objects(hist, self.transaction_type).value,
                         [date |-> MonthIs(transaction.date.month)]).value
                 number_of_similar == Len(similar_transactions) + 1
                 every_nth == slice_step(similar_transactions, self.n)
             IN  IF number_of_similar % self.n = 0
                 THEN IF every_nth = <<>> THEN Raise("IndexError")
                      ELSE IF Len(Tail(every_nth)) < self.x_times
                      THEN Return(transaction.price)
                      ELSE Return(0)
                 ELSE Return(0)

\* EveryNShipmentIsFreeXTimesInAMonth.calculate_discount(self, transaction,
\* shipping_plans, history)
EveryNShipmentIsFreeXTimesInAMonth_calculate_discount(self, transaction, plans, hist) ==
    LET equal == attributes_equal(transaction, self.transaction_type)
    IN  IF equal.raised THEN equal
        ELSE IF ~equal.value THEN Return(0)
        ELSE LET similar_transactions ==
                     filter_objects(hist, self.transaction_type).value
                 number_of_similar == Len(similar_transactions) + 1
                 every_nth == slice_step(similar_transactions, self.n)
             IN  IF number_of_similar % self.n = 0
                 THEN IF every_nth = <<>> THEN Raise("IndexError")
                      ELSE LET nt_transaction == Tail(every_nth)
                               applied_this_month ==
                                   filter_objects(nt_transaction,
                                       [date |-> MonthIs(transaction.date.month)]).value
                           IN  IF Len(applied_this_month) < self.x_times
                               THEN IF "price" \notin DOMAIN transaction
                                    THEN Raise("AttributeError")
                                    ELSE Return(transaction.price)
                               ELSE Return(0)
                 ELSE Return(0)

\* correct_discount that returns what the month has left of the limit
correct_discount_to_limit(self, transaction, discount, plans, hist) ==
    IF discount = 0
    THEN Return(0)
    ELSE LET month_transactions ==
                 filter_objects(hist, [date |-> MonthIs(transaction.date.month)]).value
             month_discounts ==
                 Sum([i \in DOMAIN month_transactions |-> month_transactions[i].discount])
         IN  Return(self.limit - month_discounts)

\* correct_discount that returns the discount as it is
correct_discount_unchanged(self, transaction, discount, plans, hist) ==
    Return(discount)

\* correct_discount that leaves the month's earlier discounts out of exceeds
correct_discount_alone(self, transaction, discount, plans, hist) ==
    IF discount = 0
    THEN Return(0)
    ELSE LET exceeds == discount - self.limit
         IN  IF exceeds > 0 THEN Return(discount - exceeds) ELSE Return(discount)

\* MonthlyAccumulatedDiscountLimiter.correct_discount(self, transaction,
\* discount, shipping_plans, history)
correct_discount(self, transaction, discount, plans, hist) ==
    IF discount = 0
    THEN Return(0)
    ELSE LET month_transactions ==
                 filter_objects(hist, [date |-> MonthIs(transaction.date.month)]).value
             month_discounts ==
                 Sum([i \in DOMAIN month_transactions |-> month_transactions[i].discount])
             exceeds == month_discounts + discount - self.limit
         IN  IF exceeds > 0 THEN Return(discount - exceeds) ELSE Return(discount)

\* rule.calculate_discount(*args): Python binds the positional arguments to the
\* parameters of the method of the rule's class and raises TypeError when
\* their numbers differ.  `returned` is what a protocol object returns.
calculate_discount(rule, args, returned) ==
    CASE rule.cls = "MatchLowestPackagePrice" ->
            IF Len(args) # 3 THEN Raise("TypeError")
            ELSE MatchLowestPackagePrice_calculate_discount(
                     rule, args[1], args[2], args[3])
      [] rule.cls = "EveryNShipmentIsFreeXTimesInAMonth" ->
            IF Len(args) # 3 THEN Raise("TypeError")
            ELSE EveryNShipmentIsFreeXTimesInAMonth_calculate_discount(
                     rule, args[1], args[2], args[3])
      [] OTHER ->
            IF Len(args) # 4 THEN Raise("TypeError") ELSE returned

-----------------------------------------------------------------------------
(* transaction.py: TransactionProcessor *)

\* a call result together with the correct_discount calls made so far
WithPassed(r, made) ==
    [raised |-> r.raised, exc |-> r.exc, none |-> r.none, value |-> r.value,
     passed |-> made]

\* the inner loop that gives every correction rule the size the rule returned
RECURSIVE correct_loop_from_size(_, _, _, _, _, _)
correct_loop_from_size(self, transaction, corrected_size, hist, j, made) ==
    IF j > Len(self.correction_rules)
    THEN WithPassed(Return(IF made = <<>> THEN corrected_size
                           ELSE made[Len(made)].returned), made)
    ELSE LET c == correct_discount(self.correction_rules[j], transaction,
                                   corrected_size, self.shipping_plans, hist)
         IN  IF c.raised THEN WithPassed(c, made)
             ELSE correct_loop_from_size(
                      self, transaction, corrected_size, hist, j + 1,
                      Append(made, [correction |-> j, discount |-> corrected_size,
                                    returned |-> c.value, history |-> hist]))

\* the inner loop of _get_largest_discount: every correction rule in turn,
\* each given the output of the one before; `made` is the calls made so far
RECURSIVE correct_loop(_, _, _, _, _, _)
correct_loop(self, transaction, corrected_size, hist, j, made) ==
    IF j > Len(self.correction_rules)
    THEN WithPassed(Return(corrected_size), made)
    ELSE LET c == correct_discount(self.correction_rules[j], transaction,
                                   corrected_size, self.shipping_plans, hist)
         IN  IF c.raised THEN WithPassed(c, made)
             ELSE correct_loop(self, transaction, c.value, hist, j + 1,
                               Append(made, [correction |-> j,
                                             discount |-> corrected_size,
                                             returned |-> c.value,
                                             history |-> hist]))

\* what rule k returns in _get_largest_discount (line 109)
rule_size(self, transaction, price, hist, returned, k) ==
    calculate_discount(self.rules[k],
                       <<transaction, price, self.shipping_plans, hist>>,
                       returned[k])

\* largest that answers -1, not Decimal("0"), for an empty list
largest_sentinel(collected) ==
    IF Len(collected) = 0 THEN -1 ELSE Max(Range(collected))

\* max(discounts), or Decimal("0") for an empty list (lines 133-136)
largest(collected) ==
    IF Len(collected) = 0 THEN 0 ELSE Max(Range(collected))

\* what _get_largest_discount returns or raises, with its list discounts and
\* the correct_discount calls it made
Largest(r, discounts_list, made) ==
    [raised |-> r.raised, exc |-> r.exc, none |-> r.none, value |-> r.value,
     discounts |-> discounts_list, passed |-> made]

\* the correct_discount calls of one run of the inner loop, as calls for rule k
ForRule(k, made) ==
    [i \in DOMAIN made |->
        [rule |-> k, correction |-> made[i].correction,
         discount |-> made[i].discount, returned |-> made[i].returned,
         history |-> made[i].history]]

\* rules_loop that collects size where the code collects corrected_size
RECURSIVE rules_loop_uncorrected(_, _, _, _, _, _, _, _)
rules_loop_uncorrected(self, transaction, price, hist, returned, k, collected, made) ==
    IF k > Len(self.rules)
    THEN Largest(Return(largest(collected)), collected, made)
    ELSE LET size == rule_size(self, transaction, price, hist, returned, k)
         IN  IF size.raised THEN Largest(size, collected, made)
             ELSE IF ~size.none /\ size.value > 0
             THEN LET corrected ==
                          correct_loop(self, transaction, size.value, hist, 1, <<>>)
                  IN  IF corrected.raised
                      THEN Largest(corrected, collected,
                                   made \o ForRule(k, corrected.passed))
                      ELSE rules_loop_uncorrected(
                               self, transaction, price, hist, returned, k + 1,
                               Append(collected, size.value),
                               made \o ForRule(k, corrected.passed))
             ELSE rules_loop_uncorrected(self, transaction, price, hist, returned,
                                         k + 1, collected, made)

\* rules_loop that corrects and collects every size that is not None
RECURSIVE rules_loop_not_none(_, _, _, _, _, _, _, _)
rules_loop_not_none(self, transaction, price, hist, returned, k, collected, made) ==
    IF k > Len(self.rules)
    THEN Largest(Return(largest(collected)), collected, made)
    ELSE LET size == rule_size(self, transaction, price, hist, returned, k)
         IN  IF size.raised THEN Largest(size, collected, made)
             ELSE IF ~size.none
             THEN LET corrected ==
                          correct_loop(self, transaction, size.value, hist, 1, <<>>)
                  IN  IF corrected.raised
                      THEN Largest(corrected, collected,
                                   made \o ForRule(k, corrected.passed))
                      ELSE rules_loop_not_none(
                               self, transaction, price, hist, returned, k + 1,
                               Append(collected, corrected.value),
                               made \o ForRule(k, corrected.passed))
             ELSE rules_loop_not_none(self, transaction, price, hist, returned,
                                      k + 1, collected, made)

\* the outer loop of _get_largest_discount over self._rules: `collected` is
\* the list discounts, `made` the correct_discount calls made so far
RECURSIVE rules_loop(_, _, _, _, _, _, _, _)
rules_loop(self, transaction, price, hist, returned, k, collected, made) ==
    IF k > Len(self.rules)
    THEN Largest(Return(largest(collected)), collected, made)
    ELSE LET size == rule_size(self, transaction, price, hist, returned, k)
         IN  IF size.raised THEN Largest(size, collected, made)
             ELSE IF ~size.none /\ size.value > 0
             THEN LET corrected ==
                          correct_loop(self, transaction, size.value, hist, 1, <<>>)
                  IN  IF corrected.raised
                      THEN Largest(corrected, collected,
                                   made \o ForRule(k, corrected.passed))
                      ELSE rules_loop(self, transaction, price, hist, returned,
                                      k + 1, Append(collected, corrected.value),
                                      made \o ForRule(k, corrected.passed))
             ELSE rules_loop(self, transaction, price, hist, returned,
                             k + 1, collected, made)

_get_largest_discount(self, transaction, price, hist, returned) ==
    rules_loop(self, transaction, price, hist, returned, 1, <<>>, <<>>)

\* the applied_discount of a ShippingPrice: a Decimal or None
Some(d) == {d}

None == {}

\* ShippingPrice with discount >= 0 for discount > 0
ShippingPrice_zero_applied(price_before_discount, discount) ==
    IF discount >= 0
    THEN [reduced_price |-> price_before_discount - discount,
          applied_discount |-> Some(discount)]
    ELSE [reduced_price |-> price_before_discount, applied_discount |-> None]

\* the dictionary process_transaction returns (lines 183-192)
ShippingPrice(price_before_discount, discount) ==
    IF discount > 0
    THEN [reduced_price |-> price_before_discount - discount,
          applied_discount |-> Some(discount)]
    ELSE [reduced_price |-> price_before_discount, applied_discount |-> None]

\* self._history.insert(0, record)
append_front(hist, record) == <<record>> \o hist

\* self._history = [record]
append_overwrite(hist, record) == <<record>>

\* self._history.append(record)
append(hist, record) == Append(hist, record)

\* the size values of the rule calls that were made before the call ended
sizes_seen(self, transaction, price, returned) ==
    LET raising == {k \in DOMAIN self.rules :
                      rule_size(self, transaction, price, self.history, returned, k).raised}
        last == IF raising = {} THEN Len(self.rules) ELSE Min(raising)
    IN  [k \in 1..last |->
            rule_size(self, transaction, price, self.history, returned, k)]

\* attributes after a call that leaves the plans sorted by price
attributes_sorted(self) ==
    [shipping_plans |->
         SortSeq(self.shipping_plans, LAMBDA a, b : a.price < b.price),
     rules |-> self.rules,
     correction_rules |-> self.correction_rules]

\* self._shipping_plans, self._rules and self._correction_rules after a call
\* of process_transaction: no statement of it assigns them, find reads its
\* list, filter_objects deletes from a copy of its list, and the rule methods
\* read the attributes of their objects
attributes(self) ==
    [shipping_plans |-> self.shipping_plans, rules |-> self.rules,
     correction_rules |-> self.correction_rules]

\* process_transaction that appends the record before the rules are evaluated
process_transaction_append_first(self, transaction, returned) ==
    LET model == TransactionModel(transaction)
        obj == model.value
        plan == find(self.shipping_plans,
                     [carrier |-> Value(obj.carrier),
                      package_size |-> Value(obj.package_size)])
        early == append(self.history, DiscountTransaction(0, plan.value.price, obj))
        discount == _get_largest_discount(self, obj, plan.value.price,
                                         self.history, returned)
    IN  IF model.raised
        THEN [history |-> self.history, result |-> model,
              transaction_obj |-> NoTransaction, sizes |-> <<>>,
              passed |-> <<>>, discounts |-> <<>>, rule_history |-> <<>>] @@ attributes(self)
        ELSE IF plan.raised
        THEN [history |-> self.history, result |-> plan,
              transaction_obj |-> obj, sizes |-> <<>>,
              passed |-> <<>>, discounts |-> <<>>, rule_history |-> <<>>] @@ attributes(self)
        ELSE IF discount.raised
        THEN [history |-> early, result |-> Raise(discount.exc),
              transaction_obj |-> obj, sizes |-> <<>>,
              passed |-> <<>>, discounts |-> <<>>, rule_history |-> <<>>] @@ attributes(self)
        ELSE [history |->
                  append(self.history,
                         DiscountTransaction(discount.value, plan.value.price, obj)),
              result |-> Return(ShippingPrice(plan.value.price, discount.value)),
              transaction_obj |-> obj, sizes |-> <<>>,
              passed |-> <<>>, discounts |-> <<>>, rule_history |-> <<>>] @@ attributes(self)

\* process_transaction that gives the rules a history that already holds the
\* record of the call (with discount 0)
process_transaction_own_record(self, transaction, returned) ==
    LET model == TransactionModel(transaction)
        failed(e, obj) == [history |-> self.history, result |-> e,
                           transaction_obj |-> obj, sizes |-> <<>>,
                           passed |-> <<>>, discounts |-> <<>>, rule_history |-> <<>>] @@ attributes(self)
    IN  IF model.raised
        THEN failed(model, NoTransaction)
        ELSE
        LET obj == model.value
            plan == find(self.shipping_plans,
                         [carrier |-> Value(obj.carrier),
                          package_size |-> Value(obj.package_size)])
        IN  IF plan.raised THEN failed(plan, obj)
            ELSE
            LET price_before_discount == plan.value.price
                rule_hist == append(self.history,
                                    DiscountTransaction(0, price_before_discount, obj))
                discount == _get_largest_discount(self, obj, price_before_discount,
                                                 rule_hist, returned)
                seen == sizes_seen(self, obj, price_before_discount, returned)
            IN  IF discount.raised
                THEN [history |-> self.history, result |-> Raise(discount.exc),
                      transaction_obj |-> obj, sizes |-> seen,
                      passed |-> discount.passed, discounts |-> discount.discounts,
                      rule_history |-> [k \in DOMAIN seen |-> rule_hist]]
                     @@ attributes(self)
                ELSE [history |->
                          append(self.history,
                                 DiscountTransaction(discount.value,
                                                     price_before_discount, obj)),
                      result |-> Return(ShippingPrice(price_before_discount,
                                                      discount.value)),
                      transaction_obj |-> obj,
                      sizes |-> seen,
                      passed |-> discount.passed, discounts |-> discount.discounts,
                      rule_history |-> [k \in DOMAIN seen |-> rule_hist]]
                     @@ attributes(self)

\* process_transaction(self, transaction): the history after the call, what
\* the call returned or raised, and its locals
process_transaction(self, transaction, returned) ==
    LET model == TransactionModel(transaction)
        failed(e, obj) == [history |-> self.history, result |-> e,
                           transaction_obj |-> obj, sizes |-> <<>>,
                           passed |-> <<>>, discounts |-> <<>>, rule_history |-> <<>>] @@ attributes(self)
    IN  IF model.raised
        THEN failed(model, NoTransaction)
        ELSE
        LET obj == model.value
            validated == validate_iterable_annotations(obj)
            plan == find(self.shipping_plans,
                         [carrier |-> Value(obj.carrier),
                          package_size |-> Value(obj.package_size)])
        IN  IF validated.raised THEN failed(validated, obj)
            ELSE IF plan.raised THEN failed(plan, obj)
            ELSE
            LET price_before_discount == plan.value.price
                rule_hist == self.history
                discount == _get_largest_discount(self, obj, price_before_discount,
                                                 rule_hist, returned)
                seen == sizes_seen(self, obj, price_before_discount, returned)
            IN  IF discount.raised
                THEN [history |-> self.history, result |-> Raise(discount.exc),
                      transaction_obj |-> obj, sizes |-> seen,
                      passed |-> discount.passed, discounts |-> discount.discounts,
                      rule_history |-> [k \in DOMAIN seen |-> rule_hist]]
                     @@ attributes(self)
                ELSE [history |->
                          append(self.history,
                                 DiscountTransaction(discount.value,
                                                     price_before_discount, obj)),
                      result |-> Return(ShippingPrice(price_before_discount,
                                                      discount.value)),
                      transaction_obj |-> obj,
                      sizes |-> seen,
                      passed |-> discount.passed, discounts |-> discount.discounts,
                      rule_history |-> [k \in DOMAIN seen |-> rule_hist]]
                     @@ attributes(self)

-----------------------------------------------------------------------------
(* Inputs and configurations *)

Date(year, month) == [year |-> year, month |-> month]

Dates == {Date(2015, 1), Date(2015, 2), Date(2016, 1)}

\* raw transactions: " A" is stripped to "A", "" is no carrier name and
\* month 13 is no date
Transactions ==
    [date : Dates \cup {Date(2015, 13)},
     carrier : {" A", "B", ""},
     package_size : {"S", "L"}]

\* two plans for (A, S), and no plan for (B, L) although B and L both occur
Plans ==
    <<ShippingPlan("A", "S", 10), ShippingPlan("A", "S", 8),
      ShippingPlan("B", "S", 5), ShippingPlan("A", "L", 7)>>

SmallPlans == <<ShippingPlan("A", "S", 10), ShippingPlan("A", "S", 8)>>

LowestSmall == MatchLowestPackagePrice([package_size |-> Value("S")])

ThirdLargeFree ==
    EveryNShipmentIsFreeXTimesInAMonth(
        3, 1, [carrier |-> Value("A"), package_size |-> Value("L")])

\* the rule lists built from the registered classes of rules.py: the mapping
\* of instances is keyed by class name, so a class occurs at most once
RuleLists ==
    {<<>>, <<LowestSmall>>, <<ThirdLargeFree>>, <<LowestSmall, ThirdLargeFree>>}

CorrectionRuleLists == {<<>>, <<MonthlyAccumulatedDiscountLimiter(10)>>}

\* rule lists of objects that implement the protocol as protocols.py states it
ProtocolRuleLists ==
    {<<SupportsDiscountCalculate>>,
     <<SupportsDiscountCalculate, SupportsDiscountCalculate>>}

\* what a protocol object may return: None, or a Decimal
Returned == {ReturnNone, Return(0), Return(4), Return(12)}

Self ==
    [shipping_plans |-> shipping_plans, rules |-> rules,
     correction_rules |-> correction_rules, history |-> history]

-----------------------------------------------------------------------------
(* The processor: TransactionProcessor.__init__ leaves the plans, the two  *)
(* rule lists and an empty history; process_transaction is its one         *)
(* operation.                                                              *)

InitProcessor(plan_lists, rule_lists, correction_lists) ==
    /\ shipping_plans \in plan_lists
    /\ rules \in rule_lists
    /\ correction_rules \in correction_lists
    /\ history = <<>>
    /\ transaction_obj = NoTransaction
    /\ sizes = <<>>
    /\ passed = <<>>
    /\ discounts = <<>>
    /\ rule_history = <<>>
    /\ result = Pending
    /\ calls = <<>>
    /\ in_flight = [caller \in Callers |-> NoCall]
    /\ overlapped = FALSE
    /\ call = NoCall
    /\ ret = Pending
    /\ constructed = <<>>

Init == InitProcessor({Plans}, RuleLists, CorrectionRuleLists)

\* the configurations of Init, and those whose discount rules are protocol
\* objects: the processor holds its rules as SupportsDiscountCalculate
InitOpen ==
    \/ Init
    \/ InitProcessor({SmallPlans}, ProtocolRuleLists, CorrectionRuleLists)

\* the values the rule calls of one process_transaction call may return: a
\* protocol object returns any of Returned; the classes of rules.py compute
\* theirs, and no rule is called when the call fails before it reaches them
Returns(transaction) ==
    LET model == TransactionModel(transaction)
        reaches_rules ==
            /\ ~model.raised
            /\ ~find(shipping_plans,
                     [carrier |-> Value(model.value.carrier),
                      package_size |-> Value(model.value.package_size)]).raised
    IN  {returned \in [DOMAIN rules -> Returned] :
            \A k \in DOMAIN rules :
                \/ reaches_rules /\ rules[k].cls = "SupportsDiscountCalculate"
                \/ returned[k] = ReturnNone}

ProcessTransaction ==
    /\ Len(history) < MaxHistory
    /\ \E transaction \in Transactions :
       \E returned \in Returns(transaction) :
       \E after \in {process_transaction(Self, transaction, returned)} :
              /\ shipping_plans' = after.shipping_plans
              /\ rules' = after.rules
              /\ correction_rules' = after.correction_rules
              /\ history' = after.history
              /\ result' = after.result
              /\ transaction_obj' = after.transaction_obj
              /\ sizes' = after.sizes
              /\ passed' = after.passed
              /\ discounts' = after.discounts
              /\ rule_history' = after.rule_history
              /\ calls' = IF after.result.raised THEN calls
                          ELSE Append(calls, transaction)
    /\ UNCHANGED <<in_flight, overlapped, call, ret, constructed>>

Next == ProcessTransaction

Spec == Init /\ [][Next]_vars

SpecOpen == InitOpen /\ [][Next]_vars

\* two correction rules: the processor holds its correction rules as a list of
\* SupportsDiscountCorrection objects and calls them in the order of the list
ChainedLimiters ==
    <<MonthlyAccumulatedDiscountLimiter(10), MonthlyAccumulatedDiscountLimiter(4)>>

InitChain ==
    InitProcessor({SmallPlans}, ProtocolRuleLists,
                  {<<>>, <<MonthlyAccumulatedDiscountLimiter(10)>>, ChainedLimiters})

SpecChain == InitChain /\ [][Next]_vars

-----------------------------------------------------------------------------
(* process_transaction called by two callers without synchronization: a    *)
(* call runs up to the return of _get_largest_discount (lines 159-173) in  *)
(* one step and appends its record and returns (lines 175-192) in another, *)
(* and the steps of the two calls interleave                               *)

MaxConcurrent == 3

\* transactions of carrier A and size S, and one for which no plan is found
ConcurrentTransactions ==
    [date : {Date(2015, 1), Date(2015, 2)}, carrier : {" A"}, package_size : {"S"}]
    \cup {[date |-> Date(2015, 1), carrier |-> "B", package_size |-> "S"]}

InitConcurrent ==
    InitProcessor({SmallPlans}, {<<SupportsDiscountCalculate>>},
                  {<<MonthlyAccumulatedDiscountLimiter(10)>>})

\* lines 159-173 of a call: a call that raises ends here
Evaluate(caller) ==
    /\ in_flight[caller] = NoCall
    /\ Len(history) + Cardinality({c \in Callers : in_flight[c] # NoCall})
          < MaxConcurrent
    /\ \E transaction \in ConcurrentTransactions :
       \E returned \in Returns(transaction) :
       \E after \in {process_transaction(Self, transaction, returned)} :
          IF after.result.raised
          THEN /\ result' = after.result
               /\ transaction_obj' = after.transaction_obj
               /\ sizes' = after.sizes
               /\ passed' = after.passed
               /\ discounts' = after.discounts
               /\ rule_history' = after.rule_history
               /\ UNCHANGED <<in_flight, overlapped>>
          ELSE /\ in_flight' =
                     [in_flight EXCEPT ![caller] =
                         [fn |-> "process_transaction", transaction |-> transaction,
                          record |-> after.history[Len(after.history)],
                          after |-> after]]
               /\ overlapped' =
                     (overlapped \/ \E c \in Callers \ {caller} : in_flight[c] # NoCall)
               /\ UNCHANGED <<result, transaction_obj, sizes, passed, discounts,
                              rule_history>>
    /\ UNCHANGED <<shipping_plans, rules, correction_rules, history, calls,
                   call, ret, constructed>>

\* lines 175-192 of a call: self._history.append(record), and the return
AppendRecord(caller) ==
    /\ in_flight[caller] # NoCall
    /\ history' = append(history, in_flight[caller].record)
    /\ result' = in_flight[caller].after.result
    /\ transaction_obj' = in_flight[caller].after.transaction_obj
    /\ sizes' = in_flight[caller].after.sizes
    /\ passed' = in_flight[caller].after.passed
    /\ discounts' = in_flight[caller].after.discounts
    /\ rule_history' = in_flight[caller].after.rule_history
    /\ calls' = Append(calls, in_flight[caller].transaction)
    /\ in_flight' = [in_flight EXCEPT ![caller] = NoCall]
    /\ UNCHANGED <<shipping_plans, rules, correction_rules, overlapped,
                   call, ret, constructed>>

NextConcurrent == \E caller \in Callers : Evaluate(caller) \/ AppendRecord(caller)

SpecConcurrent == InitConcurrent /\ [][NextConcurrent]_vars

-----------------------------------------------------------------------------
(* MonthlyAccumulatedDiscountLimiter.correct_discount called on its own *)

MaxRecords == 2

\* history records of carrier A, size S, price 10
Records ==
    {DiscountTransaction(discount, 10,
                         [date |-> date, carrier |-> "A", package_size |-> "S"]) :
        discount \in {0, 5, 15}, date \in Dates}

RECURSIVE Histories(_)
Histories(n) ==
    IF n = 0 THEN {<<>>}
    ELSE Histories(n - 1)
         \cup {Append(h, r) : h \in {x \in Histories(n - 1) : Len(x) = n - 1},
                              r \in Records}

LimiterCalls ==
    [fn : {"correct_discount"},
     limit : {10, 20},
     transaction : {[valid |-> TRUE, date |-> date, carrier |-> "A",
                     package_size |-> "S"] : date \in Dates},
     discount : {0, 5, 10, 25},
     history : Histories(MaxRecords)]

InitLimiter ==
    /\ shipping_plans = SmallPlans
    /\ rules = <<>>
    /\ correction_rules = <<>>
    /\ history = <<>>
    /\ transaction_obj = NoTransaction
    /\ sizes = <<>>
    /\ passed = <<>>
    /\ discounts = <<>>
    /\ rule_history = <<>>
    /\ result = Pending
    /\ calls = <<>>
    /\ in_flight = [caller \in Callers |-> NoCall]
    /\ overlapped = FALSE
    /\ call \in LimiterCalls
    /\ ret = Pending
    /\ constructed = <<>>

CorrectDiscount ==
    /\ call.fn = "correct_discount"
    /\ ret = Pending
    /\ ret' = correct_discount(MonthlyAccumulatedDiscountLimiter(call.limit),
                               call.transaction, call.discount,
                               shipping_plans, call.history)
    /\ UNCHANGED <<processor, call, constructed>>

NextLimiter == CorrectDiscount

SpecLimiter == InitLimiter /\ [][NextLimiter]_vars

-----------------------------------------------------------------------------
(* The calculate_discount methods of rules.py called on their own, each    *)
(* with the parameters its signature takes: (transaction, shipping_plans,  *)
(* history), the transaction a dataclasses.Transaction, which has a price  *)

MaxSimilar == 3

Transaction(date, carrier, package_size, price) ==
    [valid |-> TRUE, date |-> date, carrier |-> carrier,
     package_size |-> package_size, price |-> price]

ExamplePlans ==
    <<ShippingPlan("A", "S", 10), ShippingPlan("A", "S", 8),
      ShippingPlan("B", "S", 5)>>

\* MatchLowestPackagePrice(): no keyword argument
NoFilter == [search_name \in {} |-> Value("")]

\* the plans have no carrier C
Filters ==
    {NoFilter,
     [carrier |-> Value("A")],
     [package_size |-> Value("S")],
     [carrier |-> Value("A"), package_size |-> Value("L")],
     [carrier |-> Value("C")]}

MatchLowestCalls ==
    [fn : {"MatchLowestPackagePrice.calculate_discount"},
     self : {MatchLowestPackagePrice(kwargs) : kwargs \in Filters},
     transaction : {Transaction(Date(2015, 1), carrier, package_size, price) :
                       carrier \in {"A", "B", "C"}, package_size \in {"S", "L"},
                       price \in {7, 10}},
     shipping_plans : {Plans, ExamplePlans},
     history : {<<>>}]

\* history records of carriers A and B, size S, price 10
SimilarRecords ==
    {DiscountTransaction(0, 10,
                         [date |-> date, carrier |-> carrier, package_size |-> "S"]) :
        date \in Dates, carrier \in {"A", "B"}}

RECURSIVE SimilarHistories(_)
SimilarHistories(n) ==
    IF n = 0 THEN {<<>>}
    ELSE SimilarHistories(n - 1)
         \cup {Append(h, r) : h \in {x \in SimilarHistories(n - 1) : Len(x) = n - 1},
                              r \in SimilarRecords}

EveryNCalls ==
    [fn : {"EveryNShipmentIsFreeXTimesInAMonth.calculate_discount"},
     self : {EveryNShipmentIsFreeXTimesInAMonth(n, x_times, [carrier |-> Value("A")]) :
                n \in {1, 2, 3}, x_times \in {1, 2}},
     transaction : {Transaction(date, carrier, "S", 10) :
                       date \in Dates, carrier \in {"A", "B"}},
     shipping_plans : {SmallPlans},
     history : SimilarHistories(MaxSimilar)]

InitRules ==
    /\ shipping_plans = SmallPlans
    /\ rules = <<>>
    /\ correction_rules = <<>>
    /\ history = <<>>
    /\ transaction_obj = NoTransaction
    /\ sizes = <<>>
    /\ passed = <<>>
    /\ discounts = <<>>
    /\ rule_history = <<>>
    /\ result = Pending
    /\ calls = <<>>
    /\ in_flight = [caller \in Callers |-> NoCall]
    /\ overlapped = FALSE
    /\ call \in MatchLowestCalls \cup EveryNCalls
    /\ ret = Pending
    /\ constructed = <<>>

CalculateDiscount ==
    /\ call.fn \in {"MatchLowestPackagePrice.calculate_discount",
                     "EveryNShipmentIsFreeXTimesInAMonth.calculate_discount"}
    /\ ret = Pending
    /\ ret' = calculate_discount(call.self,
                                 <<call.transaction, call.shipping_plans, call.history>>,
                                 ReturnNone)
    /\ UNCHANGED <<processor, call, constructed>>

NextRules == CalculateDiscount

SpecRules == InitRules /\ [][NextRules]_vars

-----------------------------------------------------------------------------
(* schemaexec.py, cast.py, validate.py: rule objects from schemas.  A      *)
(* Python value is [type, v], v the text of the value; params is the       *)
(* sequence of the (name, value) items of a dict, in the order of the dict *)

MaxSchemas == 2

PyStr(s) == [type |-> "str", v |-> s]

PyInt(s) == [type |-> "int", v |-> s]

Item(name, value) == [name |-> name, value |-> value]

\* the numbers that the texts of the numeric values stand for
NumberOf(s) ==
    CASE s = "-5" -> -5
      [] s = "0"  -> 0
      [] s = "1"  -> 1
      [] s = "3"  -> 3
      [] s = "10" -> 10

Numerals == {"-5", "0", "1", "3", "10"}

\* cast_to_decimal: Decimal(x) of a str, TypeError for any other type
cast_to_decimal(x) ==
    IF x.type # "str" THEN Raise("TypeError")
    ELSE IF x.v \notin Numerals THEN Raise("InvalidOperation")
    ELSE Return([type |-> "Decimal", v |-> x.v])

\* datetime.fromisoformat
fromisoformat(x) ==
    IF x.type # "str" THEN Raise("TypeError")
    ELSE IF x.v \notin {"2015-01-01", "2015-02-01", "2016-01-01"}
    THEN Raise("ValueError")
    ELSE Return([type |-> "datetime", v |-> x.v])

\* the keys of CASTERS
CASTERS == {"price", "date", "limit"}

\* casters[arg_name](arg_value) for the casters of CASTERS
cast(arg_name, arg_value) ==
    IF arg_name = "date" THEN fromisoformat(arg_value)
    ELSE cast_to_decimal(arg_value)

\* the loop of cast_args: the items cast so far, or what a caster raised
RECURSIVE cast_loop(_, _, _, _)
cast_loop(params, casters, j, casted_params) ==
    IF j > Len(params)
    THEN Return(casted_params)
    ELSE IF params[j].name \in casters
    THEN LET new_arg_value == cast(params[j].name, params[j].value)
         IN  IF new_arg_value.raised THEN new_arg_value
             ELSE cast_loop(params, casters, j + 1,
                            Append(casted_params,
                                   Item(params[j].name, new_arg_value.value)))
    ELSE cast_loop(params, casters, j + 1, Append(casted_params, params[j]))

cast_args(params, casters) == cast_loop(params, casters, 1, <<>>)

\* the categories that get_validators is given
Categories == [carrier |-> {"A", "B"}, package_size |-> {"S", "L"}]

\* the keys of the dict that get_validators returns
get_validators ==
    {"carrier", "package_size", "price", "n_times", "n", "limit", "date"}

\* positive_number after expect_type(expected)
positive_number(expected, x) ==
    IF x.type # expected THEN Raise("TypeError")
    ELSE IF NumberOf(x.v) <= 0 THEN Raise("ValueError")
    ELSE ReturnNone

\* the keys of get_validators and the key x_times, which a caller adds with
\* the validators of n_times
validators_with_x_times == get_validators \cup {"x_times"}

\* the validators of one key of get_validators, run in their order; the key
\* x_times, where validators have it, has the validators of n_times
validate(arg_name, arg_value) ==
    CASE arg_name \in {"carrier", "package_size"} ->
            IF arg_value.type = "str" /\ arg_value.v \in Categories[arg_name]
            THEN ReturnNone ELSE Raise("ValueError")
      [] arg_name \in {"price", "limit"} -> positive_number("Decimal", arg_value)
      [] arg_name \in {"n_times", "n", "x_times"} -> positive_number("int", arg_value)
      [] arg_name = "date" ->
            IF arg_value.type = "datetime" THEN ReturnNone ELSE Raise("TypeError")

\* validate_args that passes over an argument that has no validator
validate_args_known(params, validators) ==
    LET failed == {j \in DOMAIN params :
                      /\ params[j].name \in validators
                      /\ validate(params[j].name, params[j].value).raised}
    IN  IF failed = {} THEN ReturnNone
        ELSE validate(params[Min(failed)].name, params[Min(failed)].value)

\* validate_args: the arguments in the order of the dict; the first one that
\* has no validator, or that a validator rejects, ends the call
validate_args(params, validators) ==
    LET failed == {j \in DOMAIN params :
                      \/ params[j].name \notin validators
                      \/ validate(params[j].name, params[j].value).raised}
    IN  IF failed = {} THEN ReturnNone
        ELSE IF params[Min(failed)].name \notin validators
        THEN Raise("AttributeError")
        ELSE validate(params[Min(failed)].name, params[Min(failed)].value)

\* validate_rule_dict_schema: every entry a mapping of exactly the keys name
\* and params
validate_rule_dict_schema(x) ==
    IF \A i \in DOMAIN x : DOMAIN x[i] = {"name", "params"}
    THEN ReturnNone ELSE Raise("TypeError")

\* caster(rule_schema["params"]) and validator(casted_args) for the callables
\* given to init_discount_rules_from_schema: a mapping is not callable
caster_call(caster, params) ==
    IF caster = "cast_args" THEN cast_args(params, CASTERS)
    ELSE Raise("TypeError")

validator_call(validator, casted_args) ==
    IF validator = "validate_args" THEN validate_args(casted_args, get_validators)
    ELSE IF validator = "validate_args_x_times"
    THEN validate_args(casted_args, validators_with_x_times)
    ELSE Raise("TypeError")

Names(params) == {params[j].name : j \in DOMAIN params}

\* the value of the argument arg_name
ArgOf(casted_args, arg_name) ==
    casted_args[CHOOSE j \in DOMAIN casted_args :
                    casted_args[j].name = arg_name].value

\* the **kwargs of a constructor call: the arguments that are not parameters
\* of the constructor
Kwargs(casted_args, parameters) ==
    [search_name \in Names(casted_args) \ parameters |->
        Value(ArgOf(casted_args, search_name).v)]

\* map_cls[rule_schema["name"]](**casted_args): the __init__ of the class
\* binds the keyword arguments to its parameters
construct(name, casted_args) ==
    CASE name = "MatchLowestPackagePrice" ->
            Return(MatchLowestPackagePrice(Kwargs(casted_args, {})))
      [] name = "EveryNShipmentIsFreeXTimesInAMonth" ->
            IF {"n", "x_times"} \subseteq Names(casted_args)
            THEN Return(EveryNShipmentIsFreeXTimesInAMonth(
                            NumberOf(ArgOf(casted_args, "n").v),
                            NumberOf(ArgOf(casted_args, "x_times").v),
                            Kwargs(casted_args, {"n", "x_times"})))
            ELSE Raise("TypeError")
      [] name = "MonthlyAccumulatedDiscountLimiter" ->
            IF Names(casted_args) = {"limit"}
            THEN Return(MonthlyAccumulatedDiscountLimiter(
                            NumberOf(ArgOf(casted_args, "limit").v)))
            ELSE Raise("TypeError")

\* a mapping that puts the item of a new name before the items it has
update_front(objects, name, rule_obj) ==
    IF \E i \in DOMAIN objects : objects[i].name = name
    THEN [i \in DOMAIN objects |->
             IF objects[i].name = name
             THEN [name |-> name, rule |-> rule_obj] ELSE objects[i]]
    ELSE <<[name |-> name, rule |-> rule_obj]>> \o objects

\* objects.setdefault(name, rule_obj): an earlier object of the name stays
update_first(objects, name, rule_obj) ==
    IF \E i \in DOMAIN objects : objects[i].name = name
    THEN objects
    ELSE Append(objects, [name |-> name, rule |-> rule_obj])

\* objects.update({name: rule_obj}): a dict keeps the place of a key it has
\* and takes the new value
update(objects, name, rule_obj) ==
    IF \E i \in DOMAIN objects : objects[i].name = name
    THEN [i \in DOMAIN objects |->
             IF objects[i].name = name
             THEN [name |-> name, rule |-> rule_obj] ELSE objects[i]]
    ELSE Append(objects, [name |-> name, rule |-> rule_obj])

\* the loop over rule_schemas that passes over a name that is not in map_cls
RECURSIVE schemas_loop_known(_, _, _, _, _, _, _)
schemas_loop_known(map_cls, rule_schemas, caster, validator, k, objects, made) ==
    IF k > Len(rule_schemas)
    THEN [result |-> Return(objects), constructed |-> made]
    ELSE LET rule_schema == rule_schemas[k]
             casted_args == caster_call(caster, rule_schema.params)
             validated == validator_call(validator, casted_args.value)
             rule_obj == construct(rule_schema.name, casted_args.value)
             call_made == Append(made, [name |-> rule_schema.name,
                                        args |-> casted_args.value])
         IN  IF casted_args.raised
             THEN [result |-> casted_args, constructed |-> made]
             ELSE IF validated.raised
             THEN [result |-> validated, constructed |-> made]
             ELSE IF rule_schema.name \notin map_cls
             THEN schemas_loop_known(map_cls, rule_schemas, caster, validator,
                                     k + 1, objects, made)
             ELSE IF rule_obj.raised
             THEN [result |-> rule_obj, constructed |-> call_made]
             ELSE schemas_loop_known(map_cls, rule_schemas, caster, validator, k + 1,
                                     update(objects, rule_schema.name, rule_obj.value),
                                     call_made)

\* the loop of init_discount_rules_from_schema over rule_schemas (lines
\* 34-51): the result, and the constructor calls made
RECURSIVE schemas_loop(_, _, _, _, _, _, _)
schemas_loop(map_cls, rule_schemas, caster, validator, k, objects, made) ==
    IF k > Len(rule_schemas)
    THEN [result |-> Return(objects), constructed |-> made]
    ELSE LET rule_schema == rule_schemas[k]
             casted_args == caster_call(caster, rule_schema.params)
             validated == validator_call(validator, casted_args.value)
             rule_obj == construct(rule_schema.name, casted_args.value)
             call_made == Append(made, [name |-> rule_schema.name,
                                        args |-> casted_args.value])
         IN  IF casted_args.raised
             THEN [result |-> casted_args, constructed |-> made]
             ELSE IF validated.raised
             THEN [result |-> validated, constructed |-> made]
             ELSE IF rule_schema.name \notin map_cls
             THEN [result |-> Raise("ValueError"), constructed |-> made]
             ELSE IF rule_obj.raised
             THEN [result |-> rule_obj, constructed |-> call_made]
             ELSE schemas_loop(map_cls, rule_schemas, caster, validator, k + 1,
                               update(objects, rule_schema.name, rule_obj.value),
                               call_made)

\* init_discount_rules_from_schema(rule_cls, rule_schemas, caster, validator):
\* the dict it returns is the sequence of its (name, rule) items
init_discount_rules_from_schema(rule_cls, rule_schemas, caster, validator) ==
    LET valid == validate_rule_dict_schema(rule_schemas)
    IN  IF valid.raised
        THEN [result |-> valid, constructed |-> <<>>]
        ELSE schemas_loop(Range(rule_cls), rule_schemas, caster, validator,
                          1, <<>>, <<>>)

\* a call of init_discount_rules_from_schema with positional arguments: it has
\* four parameters and none has a default
init_discount_rules_from_schema_call(args) ==
    IF Len(args) # 4
    THEN [result |-> Raise("TypeError"), constructed |-> <<>>]
    ELSE init_discount_rules_from_schema(args[1], args[2], args[3], args[4])

\* _initialize_discount_rules(rules_schemas, rules_cls, rule_params_types,
\* category_validators) of transaction.py: the list of the values of the dict
_initialize_discount_rules(rules_schemas, rules_cls, rule_params_types, category_validators) ==
    LET map_discount_rules ==
            init_discount_rules_from_schema_call(
                <<rules_cls, rules_schemas, rule_params_types>>)
        items == map_discount_rules.result.value
    IN  IF map_discount_rules.result.raised
        THEN map_discount_rules
        ELSE [result |-> Return([i \in DOMAIN items |->
                                    validate_iterable_annotations(items[i].rule).value]),
              constructed |-> map_discount_rules.constructed]

\* RegisterDiscountRule.get_rules(), RegisterDiscountCorrectionRule.get_rules():
\* the classes in the order rules.py defines them
RegisterDiscountRule_get_rules ==
    <<"MatchLowestPackagePrice", "EveryNShipmentIsFreeXTimesInAMonth">>

RegisterDiscountCorrectionRule_get_rules ==
    <<"MonthlyAccumulatedDiscountLimiter">>

RuleSchema(name, params) == [name |-> name, params |-> params]

\* schema entries: of each class, with an argument no validator is for
\* (colour, x_times), with a value a validator rejects (carrier Z, limit 0),
\* with a value the caster rejects (a limit that is no str), of a name that
\* is no class (HalfPrice), and one without params
RuleSchemas ==
    {RuleSchema("MatchLowestPackagePrice", <<Item("package_size", PyStr("S"))>>),
     RuleSchema("MatchLowestPackagePrice", <<Item("carrier", PyStr("A"))>>),
     RuleSchema("MatchLowestPackagePrice",
                <<Item("carrier", PyStr("A")), Item("colour", PyStr("red"))>>),
     RuleSchema("MatchLowestPackagePrice",
                <<Item("carrier", PyStr("Z")), Item("colour", PyStr("red"))>>),
     RuleSchema("EveryNShipmentIsFreeXTimesInAMonth",
                <<Item("n", PyInt("3")), Item("x_times", PyInt("1")),
                  Item("carrier", PyStr("A"))>>),
     RuleSchema("MonthlyAccumulatedDiscountLimiter", <<Item("limit", PyStr("10"))>>),
     RuleSchema("MonthlyAccumulatedDiscountLimiter", <<Item("limit", PyStr("3"))>>),
     RuleSchema("MonthlyAccumulatedDiscountLimiter", <<Item("limit", PyStr("0"))>>),
     RuleSchema("MonthlyAccumulatedDiscountLimiter",
                <<Item("colour", PyStr("red")), Item("limit", PyInt("10"))>>),
     RuleSchema("HalfPrice", <<Item("carrier", PyStr("A"))>>),
     RuleSchema("HalfPrice", <<Item("colour", PyStr("red"))>>),
     [name |-> "MatchLowestPackagePrice"]}

RECURSIVE SchemaLists(_)
SchemaLists(n) ==
    IF n = 0 THEN {<<>>}
    ELSE SchemaLists(n - 1)
         \cup {Append(l, s) : l \in {x \in SchemaLists(n - 1) : Len(x) = n - 1},
                              s \in RuleSchemas}

SchemaCalls ==
    [fn : {"init_discount_rules_from_schema", "_initialize_discount_rules"},
     rule_cls : {RegisterDiscountRule_get_rules,
                 RegisterDiscountCorrectionRule_get_rules},
     rule_schemas : SchemaLists(MaxSchemas)]

InitSchema ==
    /\ shipping_plans = SmallPlans
    /\ rules = <<>>
    /\ correction_rules = <<>>
    /\ history = <<>>
    /\ transaction_obj = NoTransaction
    /\ sizes = <<>>
    /\ passed = <<>>
    /\ discounts = <<>>
    /\ rule_history = <<>>
    /\ result = Pending
    /\ calls = <<>>
    /\ in_flight = [caller \in Callers |-> NoCall]
    /\ overlapped = FALSE
    /\ call \in SchemaCalls
    /\ ret = Pending
    /\ constructed = <<>>

\* init_discount_rules_from_schema called with the caster and the validator
\* that cast.py and validate.py provide
InitDiscountRulesFromSchema ==
    /\ call.fn = "init_discount_rules_from_schema"
    /\ ret = Pending
    /\ \E after \in {init_discount_rules_from_schema(
                        call.rule_cls, call.rule_schemas,
                        "cast_args", "validate_args")} :
          /\ ret' = after.result
          /\ constructed' = after.constructed
    /\ UNCHANGED <<processor, call>>

\* _initialize_discount_rules called as TransactionProcessor.__init__ calls it
InitializeDiscountRules ==
    /\ call.fn = "_initialize_discount_rules"
    /\ ret = Pending
    /\ \E after \in {_initialize_discount_rules(
                        call.rule_schemas, call.rule_cls,
                        "rule_param_type_map", "category_validators")} :
          /\ ret' = after.result
          /\ constructed' = after.constructed
    /\ UNCHANGED <<processor, call>>

NextSchema == InitDiscountRulesFromSchema \/ InitializeDiscountRules

SpecSchema == InitSchema /\ [][NextSchema]_vars

-----------------------------------------------------------------------------
(* The order of the rule objects: init_discount_rules_from_schema called   *)
(* with the validators of get_validators, and with validators that have    *)
(* the key x_times too, without which no schema entry of                   *)
(* EveryNShipmentIsFreeXTimesInAMonth passes validate_args                 *)

OrderSchemas ==
    {RuleSchema("MatchLowestPackagePrice", <<Item("package_size", PyStr("S"))>>),
     RuleSchema("MatchLowestPackagePrice", <<Item("carrier", PyStr("A"))>>),
     RuleSchema("EveryNShipmentIsFreeXTimesInAMonth",
                <<Item("n", PyInt("3")), Item("x_times", PyInt("1")),
                  Item("carrier", PyStr("A"))>>),
     RuleSchema("EveryNShipmentIsFreeXTimesInAMonth",
                <<Item("n", PyInt("1")), Item("x_times", PyInt("3"))>>),
     RuleSchema("MonthlyAccumulatedDiscountLimiter", <<Item("limit", PyStr("10"))>>),
     RuleSchema("MonthlyAccumulatedDiscountLimiter", <<Item("limit", PyStr("3"))>>)}

RECURSIVE OrderSchemaLists(_)
OrderSchemaLists(n) ==
    IF n = 0 THEN {<<>>}
    ELSE OrderSchemaLists(n - 1)
         \cup {Append(l, s) : l \in {x \in OrderSchemaLists(n - 1) : Len(x) = n - 1},
                              s \in OrderSchemas}

OrderCalls ==
    [fn : {"init_discount_rules_from_schema"},
     rule_cls : {RegisterDiscountRule_get_rules,
                 RegisterDiscountCorrectionRule_get_rules},
     rule_schemas : OrderSchemaLists(MaxSchemas),
     validator : {"validate_args", "validate_args_x_times"}]

InitOrder ==
    /\ shipping_plans = SmallPlans
    /\ rules = <<>>
    /\ correction_rules = <<>>
    /\ history = <<>>
    /\ transaction_obj = NoTransaction
    /\ sizes = <<>>
    /\ passed = <<>>
    /\ discounts = <<>>
    /\ rule_history = <<>>
    /\ result = Pending
    /\ calls = <<>>
    /\ in_flight = [caller \in Callers |-> NoCall]
    /\ overlapped = FALSE
    /\ call \in OrderCalls
    /\ ret = Pending
    /\ constructed = <<>>

\* init_discount_rules_from_schema called with the caster of cast.py and the
\* validator of the call
ExecuteSchemas ==
    /\ call.fn = "init_discount_rules_from_schema"
    /\ ret = Pending
    /\ \E after \in {init_discount_rules_from_schema(
                        call.rule_cls, call.rule_schemas,
                        "cast_args", call.validator)} :
          /\ ret' = after.result
          /\ constructed' = after.constructed
    /\ UNCHANGED <<processor, call>>

NextOrder == ExecuteSchemas

SpecOrder == InitOrder /\ [][NextOrder]_vars

-----------------------------------------------------------------------------
(* Properties *)

\* the last process_transaction call returned a ShippingPrice
Succeeded == ~result.raised /\ ~result.none

IsPrefix(s, t) == Len(s) <= Len(t) /\ SubSeq(t, 1, Len(s)) = s

Front(s) == SubSeq(s, 1, Len(s) - 1)

Last(s) == s[Len(s)]

\* the indexes of the plans with the carrier and package size of transaction
MatchingPlans(transaction) ==
    {i \in DOMAIN shipping_plans :
        /\ shipping_plans[i].carrier = transaction.carrier
        /\ shipping_plans[i].package_size = transaction.package_size}

\* C1: after k calls that returned, the history has exactly k records, and
\* the i-th record carries the carrier, package size and date of the i-th
\* such call.
C1_OneRecordPerCall ==
    /\ Len(history) = Len(calls)
    /\ \A i \in DOMAIN history :
          /\ history[i].carrier = strip(calls[i].carrier)
          /\ history[i].package_size = strip(calls[i].package_size)
          /\ history[i].date = calls[i].date

\* three calls returned, the first two for different transactions, one with
\* a discount and one without
C1_Witness ==
    /\ Len(calls) = 3
    /\ calls[1] # calls[2]
    /\ \E i, j \in DOMAIN history :
          history[i].discount > 0 /\ history[j].discount = 0

\* C2: in every step the history before the step is a prefix of the history
\* after it.
C2_AppendOnly == [][IsPrefix(history, history')]_vars

\* a record was appended after the limiter summed the discounts of an earlier
\* record of the same month
C2_Witness ==
    /\ Len(history) >= 2
    /\ correction_rules # <<>>
    /\ Last(history).discount > 0
    /\ history[1].discount > 0
    /\ history[1].date.month = Last(history).date.month

\* C3: a step in which process_transaction raises leaves the history as it
\* was.
C3_FailureKeepsHistory == [][result'.raised => history' = history]_vars

\* a call raised LookupError on a history that holds records
C3_Witness ==
    result.raised /\ result.exc = "LookupError" /\ history # <<>>

\* a call raised in the evaluation of a discount rule
C3_WitnessRuleError ==
    result.raised /\ result.exc = "TypeError" /\ sizes # <<>>

\* a call raised a validation error on a history that holds records
C3_WitnessValidation ==
    result.raised /\ result.exc = "ValidationError" /\ history # <<>>

\* C4: for a valid transaction the call raises LookupError exactly when no
\* plan has its (carrier, package_size) pair, and the price of the record of
\* a call that returned is the price of the first plan with that pair.
C4_BasePriceLookup ==
    transaction_obj.valid =>
        /\ (MatchingPlans(transaction_obj) = {})
              <=> (result.raised /\ result.exc = "LookupError")
        /\ Succeeded =>
              \E i \in MatchingPlans(transaction_obj) :
                  /\ \A j \in MatchingPlans(transaction_obj) : i <= j
                  /\ Last(history).price = shipping_plans[i].price

\* a lookup failed for a pair whose carrier and package size both occur in
\* the plans
C4_Witness ==
    /\ transaction_obj.valid
    /\ result.raised /\ result.exc = "LookupError"
    /\ \E i \in DOMAIN shipping_plans :
          shipping_plans[i].carrier = transaction_obj.carrier
    /\ \E i \in DOMAIN shipping_plans :
          shipping_plans[i].package_size = transaction_obj.package_size

\* the first of two plans of a pair, not the cheaper one, gave the base price
C4_WitnessFirst ==
    /\ Succeeded
    /\ Cardinality(MatchingPlans(transaction_obj)) = 2
    /\ Last(history).price = 10

\* a rule call that returned a discount greater than 0
Positive(size) == ~size.raised /\ ~size.none /\ size.value > 0

\* C5: for a valid transaction with a plan for which no discount rule returns
\* a discount greater than 0, process_transaction returns the base price as
\* reduced_price and no applied_discount.
C5_NoDiscountReturnsBasePrice ==
    (/\ transaction_obj.valid
     /\ MatchingPlans(transaction_obj) # {}
     /\ \A k \in DOMAIN sizes : ~Positive(sizes[k]))
    => /\ Succeeded
       /\ result.value.applied_discount = None
       /\ \E i \in MatchingPlans(transaction_obj) :
             result.value.reduced_price = shipping_plans[i].price

\* C6: a call that returned gives applied_discount = final discount and
\* reduced_price = base price - final discount when the final discount (the
\* discount of the record it appended) is greater than 0, and no
\* applied_discount and the base price otherwise; applied_discount is never 0.
C6_ResultFromFinalDiscount ==
    Succeeded =>
        LET record == Last(history)
            price == result.value
        IN  /\ record.discount > 0 =>
                  /\ price.applied_discount = Some(record.discount)
                  /\ price.reduced_price = record.price - record.discount
            /\ record.discount <= 0 =>
                  /\ price.applied_discount = None
                  /\ price.reduced_price = record.price
            /\ price.applied_discount # Some(0)

\* a call returned a discount, below the base price
C6_Witness ==
    /\ Succeeded
    /\ Last(history).discount > 0
    /\ result.value.reduced_price > 0

\* the corrected value of the size rule k returned in the last call, on the
\* history the call started from
CorrectedSize(k) ==
    correct_loop(Self, transaction_obj, sizes[k].value, Front(history), 1, <<>>).value

\* C7: the final discount of a call that returned is the maximum of the
\* corrected sizes of the rules that returned a size greater than 0, and 0
\* when no rule did.
C7_LargestCorrectedDiscount ==
    Succeeded =>
        LET positive == {k \in DOMAIN sizes : Positive(sizes[k])}
        IN  Last(history).discount =
                IF positive = {} THEN 0
                ELSE Max({CorrectedSize(k) : k \in positive})

\* two rules returned different sizes greater than 0 and the limiter cut the
\* larger one
C7_Witness ==
    /\ Succeeded
    /\ Len(sizes) = 2
    /\ Positive(sizes[1]) /\ Positive(sizes[2])
    /\ sizes[1].value < sizes[2].value
    /\ sizes[1].value < Last(history).discount
    /\ Last(history).discount < sizes[2].value

\* the records of hist dated in the calendar month (year and month) of date
SameCalendarMonth(hist, date) ==
    SelectSeq(hist, LAMBDA r : r.date.year = date.year /\ r.date.month = date.month)

\* the sum of the discounts of the records of hist dated in the calendar
\* month of date
CalendarMonthSum(hist, date) ==
    LET same == SameCalendarMonth(hist, date)
    IN  Sum([i \in DOMAIN same |-> same[i].discount])

\* C9: with the limiter configured, the discounts of the records of each
\* calendar month sum to at most its limit.
C9_MonthlySumWithinLimit ==
    correction_rules # <<>> =>
        \A date \in Dates :
            CalendarMonthSum(history, date) <= correction_rules[1].limit

\* the limiter cut the discount of a call so that its month's sum is the limit
C9_Witness ==
    /\ correction_rules # <<>>
    /\ Succeeded
    /\ Len(history) >= 2
    /\ history[1].discount > 0
    /\ Last(history).discount > 0
    /\ \E k \in DOMAIN sizes :
          Positive(sizes[k]) /\ sizes[k].value > Last(history).discount
    /\ CalendarMonthSum(history, Last(history).date) = correction_rules[1].limit

LargeOfA(transaction) ==
    transaction.carrier = "A" /\ transaction.package_size = "L"

\* C14: on a processor whose only rule is EveryNShipmentIsFreeXTimesInAMonth
\* (n = 3, x_times = 1), a call for a matching transaction, after calls for
\* matching transactions of the same month only, returns; the third such
\* call gives its base price as discount and reduced_price 0, and every other
\* one gives no discount.
C14_NthShipmentFree ==
    (/\ rules = <<ThirdLargeFree>>
     /\ correction_rules = <<>>
     /\ transaction_obj.valid
     /\ LargeOfA(transaction_obj)
     /\ \A i \in DOMAIN history :
           LargeOfA(history[i]) /\ history[i].date = transaction_obj.date)
    => /\ Succeeded
       /\ Len(history) = ThirdLargeFree.n =>
             /\ Last(history).discount = Last(history).price
             /\ result.value.reduced_price = 0
       /\ Len(history) # ThirdLargeFree.n =>
             /\ Last(history).discount = 0
             /\ result.value.applied_discount = None

\* the correct_discount calls of the last call that were made for rule k
PassedFor(k) == SelectSeq(passed, LAMBDA c : c.rule = k)

\* C20: in _get_largest_discount a correction rule is called only for a rule
\* whose size is greater than 0; for each such rule every correction rule is
\* called once, in the order of the list, the first with the size and each
\* later one with what the one before returned; and the list discounts holds,
\* for each such rule and no other, what the last correction rule returned
\* (the size itself when there is no correction rule), also when it is 0.
C20_CorrectionPipeline ==
    LET positive == {k \in DOMAIN sizes : Positive(sizes[k])}
    IN  /\ \A i \in DOMAIN passed : passed[i].rule \in positive
        /\ \A k \in positive :
              /\ Len(PassedFor(k)) = Len(correction_rules)
              /\ \A j \in DOMAIN PassedFor(k) :
                    /\ PassedFor(k)[j].correction = j
                    /\ PassedFor(k)[j].discount =
                          IF j = 1 THEN sizes[k].value
                          ELSE PassedFor(k)[j - 1].returned
        /\ Len(discounts) = Cardinality(positive)
        /\ \A k \in positive :
              discounts[Cardinality({l \in positive : l <= k})] =
                  IF correction_rules = <<>> THEN sizes[k].value
                  ELSE Last(PassedFor(k)).returned

\* the first rule returned 0 and was not corrected; the size of the second
\* was cut by the first limiter, then cut to 0 by the second, and the 0 is
\* in discounts
C20_Witness ==
    /\ Succeeded
    /\ Len(correction_rules) = 2
    /\ Len(sizes) = 2
    /\ sizes[1] = Return(0)
    /\ Positive(sizes[2])
    /\ Len(passed) = 2
    /\ passed[1].discount = sizes[2].value
    /\ passed[1].returned < passed[1].discount
    /\ passed[1].returned > 0
    /\ passed[2].discount = passed[1].returned
    /\ passed[2].returned = 0
    /\ discounts = <<0>>

\* C24: the record appended by a call that returned has the base price of
\* the call (the price of the first plan of its carrier and package size) as
\* price and the final discount of the call (the largest collected value, or
\* 0) as discount; the discount is 0 when applied_discount is absent and is
\* the applied_discount otherwise, and reduced_price = price - discount.
C24_RecordOfCall ==
    Succeeded =>
        LET record == Last(history)
        IN  /\ record.price =
                   shipping_plans[Min(MatchingPlans(transaction_obj))].price
            /\ record.discount = largest(discounts)
            /\ result.value.applied_discount = None => record.discount = 0
            /\ result.value.applied_discount # None =>
                   result.value.applied_discount = Some(record.discount)
            /\ result.value.reduced_price = record.price - record.discount

\* a rule returned a size greater than 0 that the limiter cut to 0: the call
\* returned no applied_discount and its record has discount 0, after a
\* record with a discount
C24_Witness ==
    /\ Succeeded
    /\ Len(history) >= 2
    /\ history[1].discount > 0
    /\ \E k \in DOMAIN sizes : Positive(sizes[k])
    /\ discounts # <<>>
    /\ result.value.applied_discount = None
    /\ Last(history).discount = 0
    /\ result.value.reduced_price = Last(history).price

\* C25: in the k-th call that returned, every discount rule was called, and
\* each of them and every correction rule was given the history that holds
\* exactly the records of the k - 1 calls that returned before, without the
\* record of the call itself, which is the last record after the call.
C25_RulesSeeEarlierRecords ==
    Succeeded =>
        /\ Len(rule_history) = Len(rules)
        /\ \A k \in DOMAIN rule_history :
              /\ rule_history[k] = Front(history)
              /\ Len(rule_history[k]) = Len(calls) - 1
        /\ \A i \in DOMAIN passed :
              /\ passed[i].history = Front(history)
              /\ Len(passed[i].history) = Len(calls) - 1

\* the third call that returned: two rules and two correction rules were
\* given the two records of the calls before, the first of them with a
\* discount, and the limiters cut the discount of the call
C25_Witness ==
    /\ Succeeded
    /\ Len(calls) = 3
    /\ Len(rule_history) = 2
    /\ Len(passed) >= 2
    /\ \A i \in DOMAIN passed : Len(passed[i].history) = 2
    /\ passed[1].history[1].discount > 0
    /\ passed[1].returned < passed[1].discount
    /\ Last(history).date = history[1].date

ExceededMonths ==
    {date \in Dates : CalendarMonthSum(history, date) > correction_rules[1].limit}

-----------------------------------------------------------------------------
(* Properties of correct_discount called on its own (SpecLimiter) *)

Corrected == call.fn = "correct_discount" /\ ret # Pending

\* C8: for discount > 0 and month_sum the sum of the discounts of the records
\* of the transaction's calendar month, the result c has month_sum + c = limit
\* when month_sum + discount > limit, and is discount otherwise.
C8_CapsAtLimit ==
    (Corrected /\ call.discount > 0) =>
        LET month_sum == CalendarMonthSum(call.history, call.transaction.date)
        IN  IF month_sum + call.discount > call.limit
            THEN month_sum + ret.value = call.limit
            ELSE ret.value = call.discount

\* C10: the records of other calendar months do not change the result: it is
\* the result for the history without them.
C10_OnlySameCalendarMonth ==
    Corrected =>
        ret = correct_discount(MonthlyAccumulatedDiscountLimiter(call.limit),
                               call.transaction, call.discount, shipping_plans,
                               SameCalendarMonth(call.history, call.transaction.date))

\* the month's accumulated discount: the sum of the discounts of the records
\* of hist that the limiter counts for the month of date
MonthAccumulated(hist, date) ==
    LET month == SelectSeq(hist, LAMBDA r : r.date.month = date.month)
    IN  Sum([i \in DOMAIN month |-> month[i].discount])

C30_WitnessNegative ==
    /\ Corrected
    /\ call.discount > 0
    /\ MonthAccumulated(call.history, call.transaction.date) > call.limit
    /\ ret.value < 0

-----------------------------------------------------------------------------
(* Properties of the calculate_discount methods called on their own        *)
(* (SpecRules)                                                             *)

MatchLowestCalled ==
    call.fn = "MatchLowestPackagePrice.calculate_discount" /\ ret # Pending

EveryNCalled ==
    call.fn = "EveryNShipmentIsFreeXTimesInAMonth.calculate_discount" /\ ret # Pending

\* x has the value of the filter on every key of the filter
EqualsFilter(x, kwargs) ==
    \A search_name \in DOMAIN kwargs : x[search_name] = kwargs[search_name].v

\* the prices of the plans that match the filter
MatchingPrices(plans, kwargs) ==
    {plans[i].price : i \in {j \in DOMAIN plans : EqualsFilter(plans[j], kwargs)}}

\* C12: MatchLowestPackagePrice.calculate_discount returns 0 for a transaction
\* that differs from the filter on some key, and for one that equals it on
\* every key it returns the price of the transaction minus the lowest price
\* among the plans that match the filter.
C12_LowestMatchingPrice ==
    LET kwargs == call.self.transaction_type
        prices == MatchingPrices(call.shipping_plans, kwargs)
    IN  (MatchLowestCalled /\ DOMAIN kwargs # {}) =>
            /\ ~EqualsFilter(call.transaction, kwargs) => ret = Return(0)
            /\ (EqualsFilter(call.transaction, kwargs) /\ prices # {}) =>
                   \E lowest \in prices :
                       /\ \A p \in prices : lowest <= p
                       /\ ret = Return(call.transaction.price - lowest)

\* plans [(A,S,10), (A,S,8), (B,S,5)], filter carrier = A, price 10: 2
C12_Witness ==
    /\ MatchLowestCalled
    /\ call.shipping_plans = ExamplePlans
    /\ call.self.transaction_type = [carrier |-> Value("A")]
    /\ call.transaction.carrier = "A"
    /\ call.transaction.price = 10
    /\ ret = Return(2)

\* a transaction that differs from the filter got 0
C12_WitnessNoMatch ==
    /\ MatchLowestCalled
    /\ call.self.transaction_type = [carrier |-> Value("A"), package_size |-> Value("L")]
    /\ call.transaction.carrier = "A"
    /\ call.transaction.package_size = "S"
    /\ ret = Return(0)

\* the plans with the carrier and the package size of the transaction: the
\* plans among which process_transaction finds the base price
OwnPlans(plans, transaction) ==
    {i \in DOMAIN plans :
        /\ plans[i].carrier = transaction.carrier
        /\ plans[i].package_size = transaction.package_size}

\* C29: when a MatchLowestPackagePrice with a filter over carrier and/or
\* package_size applies to a transaction for which a plan of its carrier and
\* package size exists (so that the base price is resolved), that plan
\* matches the filter, the list of matching plans is not empty, and the
\* selection of the lowest price does not fail.
C29_OwnPlanMatchesFilter ==
    LET kwargs == call.self.transaction_type
        own == OwnPlans(call.shipping_plans, call.transaction)
    IN  (/\ MatchLowestCalled
         /\ DOMAIN kwargs # {}
         /\ DOMAIN kwargs \subseteq {"carrier", "package_size"}
         /\ EqualsFilter(call.transaction, kwargs)
         /\ own # {})
        => /\ \A i \in own : EqualsFilter(call.shipping_plans[i], kwargs)
           /\ MatchingPrices(call.shipping_plans, kwargs) # {}
           /\ ~ret.raised
           /\ ~ret.none

\* the filter is package_size = S and the transaction is (A, S); its own
\* plans match, and the lowest matching price is that of a plan of carrier B
C29_Witness ==
    /\ MatchLowestCalled
    /\ call.self.transaction_type = [package_size |-> Value("S")]
    /\ call.transaction.carrier = "A"
    /\ call.transaction.package_size = "S"
    /\ call.transaction.price = 10
    /\ Cardinality(OwnPlans(call.shipping_plans, call.transaction)) = 2
    /\ ret = Return(5)

\* the number of the records of hist that match the filter
Similar(hist, kwargs) ==
    Cardinality({i \in DOMAIN hist : EqualsFilter(hist[i], kwargs)})

\* the number of the records of hist that match the filter and have the month
\* of date
SimilarOfMonth(hist, kwargs, date) ==
    Cardinality({i \in DOMAIN hist :
                    /\ EqualsFilter(hist[i], kwargs)
                    /\ hist[i].date.month = date.month})

\* C13: with count = (number of history records that match the filter, of
\* whatever month) + 1, EveryNShipmentIsFreeXTimesInAMonth.calculate_discount
\* returns 0 unless the transaction matches the filter and count mod n = 0.
C13_CountOverWholeHistory ==
    EveryNCalled =>
        LET kwargs == call.self.transaction_type
            count == Similar(call.history, kwargs) + 1
        IN  ~(EqualsFilter(call.transaction, kwargs) /\ count % call.self.n = 0)
                => ret = Return(0)

\* 0 was returned for the third matching transaction although it is the
\* second of its month: n = 2, and the count was not reset
C13_Witness ==
    /\ EveryNCalled
    /\ call.self.n = 2
    /\ EqualsFilter(call.transaction, call.self.transaction_type)
    /\ Similar(call.history, call.self.transaction_type) = 2
    /\ SimilarOfMonth(call.history, call.self.transaction_type,
                      call.transaction.date) = 1
    /\ ret = Return(0)

\* the count reached n = 3 with the two matching records of another month
C13_WitnessCarried ==
    /\ EveryNCalled
    /\ call.self.n = 3
    /\ EqualsFilter(call.transaction, call.self.transaction_type)
    /\ Similar(call.history, call.self.transaction_type) = 2
    /\ SimilarOfMonth(call.history, call.self.transaction_type,
                      call.transaction.date) = 0
    /\ ret = Return(call.transaction.price)

\* what the rule returned for the transaction of record i of hist, called on
\* the records before it
ReturnedFor(self, hist, i) ==
    EveryNShipmentIsFreeXTimesInAMonth_calculate_discount(
        self, hist[i], call.shipping_plans, SubSeq(hist, 1, i - 1))

\* hist is the history of a sequence of transactions for each of which the
\* rule returned
Successful(self, hist) ==
    \A i \in DOMAIN hist : ~ReturnedFor(self, hist, i).raised

\* the records of hist of the calendar month of date that match the filter
\* and for which the rule returned the price
FreeOfMonth(self, hist, date) ==
    {i \in DOMAIN hist :
        /\ EqualsFilter(hist[i], self.transaction_type)
        /\ hist[i].date = date
        /\ ReturnedFor(self, hist, i) = Return(hist[i].price)}

\* C15: after a sequence of transactions for which the rule returned, a
\* transaction for which it returns the price is, with the matching
\* transactions of its calendar month for which it returned the price before,
\* one of at most x_times.
C15_AtMostXTimesAMonth ==
    (/\ EveryNCalled
     /\ Successful(call.self, call.history)
     /\ ret = Return(call.transaction.price))
    => Cardinality(FreeOfMonth(call.self, call.history, call.transaction.date)) + 1
           <= call.self.x_times

\* the records of hist that match the filter, in their order
MatchingHistory(hist, kwargs) ==
    SelectSeq(hist, LAMBDA r : EqualsFilter(r, kwargs))

\* the 0-based positions n, 2n, 3n, ... of s, as indexes of s
EveryNthAfterFirst(s, n) ==
    {i \in DOMAIN s : i - 1 > 0 /\ (i - 1) % n = 0}

\* C22: for a matching transaction with count mod n = 0,
\* EveryNShipmentIsFreeXTimesInAMonth.calculate_discount returns the price
\* when fewer than x_times of the records at the 0-based positions n, 2n,
\* 3n, ... of the matching history are dated in the calendar month of the
\* transaction, and 0 otherwise.
C22_FreeIffFewerThanXTimes ==
    LET kwargs == call.self.transaction_type
        matching == MatchingHistory(call.history, kwargs)
        applied == {i \in EveryNthAfterFirst(matching, call.self.n) :
                       matching[i].date = call.transaction.date}
    IN  (/\ EveryNCalled
         /\ EqualsFilter(call.transaction, kwargs)
         /\ (Len(matching) + 1) % call.self.n = 0)
        => ret = IF Cardinality(applied) < call.self.x_times
                 THEN Return(call.transaction.price)
                 ELSE Return(0)

\* C23: with n = 1, EveryNShipmentIsFreeXTimesInAMonth.calculate_discount
\* never raises for a matching transaction, an empty matching history
\* included, and returns the price as long as it returned the price for fewer
\* than x_times matching transactions of the calendar month before.
C23_EveryShipmentFree ==
    (/\ EveryNCalled
     /\ call.self.n = 1
     /\ EqualsFilter(call.transaction, call.self.transaction_type))
    => /\ ~ret.raised
       /\ Cardinality(FreeOfMonth(call.self, call.history, call.transaction.date))
              < call.self.x_times
          => ret = Return(call.transaction.price)

-----------------------------------------------------------------------------
(* Properties of the instantiation of rules from schemas (SpecSchema) *)

SchemasExecuted ==
    call.fn = "init_discount_rules_from_schema" /\ ret # Pending

RulesInitialized ==
    call.fn = "_initialize_discount_rules" /\ ret # Pending

WellFormed(rule_schemas) ==
    \A k \in DOMAIN rule_schemas : DOMAIN rule_schemas[k] = {"name", "params"}

\* the entries that name no class of rule_cls
UnknownRule(rule_cls, rule_schemas) ==
    {k \in DOMAIN rule_schemas : rule_schemas[k].name \notin Range(rule_cls)}

\* the params of the entry are cast and pass their validators
ParamsPass(rule_schema) ==
    /\ ~cast_args(rule_schema.params, CASTERS).raised
    /\ ~validate_args(cast_args(rule_schema.params, CASTERS).value,
                      get_validators).raised

\* an object of a class of rule_cls is constructed from the entry
Builds(rule_cls, rule_schema) ==
    /\ ParamsPass(rule_schema)
    /\ rule_schema.name \in Range(rule_cls)
    /\ ~construct(rule_schema.name,
                  cast_args(rule_schema.params, CASTERS).value).raised

\* C16: a schema list with an entry that names no class of rule_cls makes the
\* call raise, wherever the entry stands, so that no mapping and no rule list
\* is returned; no constructor is called for that entry or a later one; and
\* the error is the ValueError of the unknown rule when the entries before it
\* build their objects and its own params pass.
C16_UnknownRuleFails ==
    LET unknown == UnknownRule(call.rule_cls, call.rule_schemas)
    IN  ((SchemasExecuted \/ RulesInitialized) /\ unknown # {}) =>
            /\ ret.raised
            /\ Len(constructed) < Min(unknown)
            /\ (/\ SchemasExecuted
                /\ WellFormed(call.rule_schemas)
                /\ \A k \in 1..(Min(unknown) - 1) :
                      Builds(call.rule_cls, call.rule_schemas[k])
                /\ ParamsPass(call.rule_schemas[Min(unknown)]))
               => ret = Raise("ValueError")

\* the second entry names no class, after an entry whose object was built
C16_Witness ==
    /\ SchemasExecuted
    /\ UnknownRule(call.rule_cls, call.rule_schemas) = {2}
    /\ Len(constructed) = 1
    /\ ret = Raise("ValueError")

\* the first entry names no class and a good entry follows it
C16_WitnessFirst ==
    /\ SchemasExecuted
    /\ UnknownRule(call.rule_cls, call.rule_schemas) = {1}
    /\ Len(call.rule_schemas) = 2
    /\ Builds(call.rule_cls, call.rule_schemas[2])
    /\ constructed = <<>>
    /\ ret = Raise("ValueError")

\* the places of the params of the entry that have no validator
UnknownParams(rule_schema) ==
    {j \in DOMAIN rule_schema.params :
        rule_schema.params[j].name \notin get_validators}

\* the entries with a parameter that has no validator
WithUnknownParam(rule_schemas) ==
    {k \in DOMAIN rule_schemas : UnknownParams(rule_schemas[k]) # {}}

\* the parameters of the entry before its first one without a validator are
\* cast and pass their validators, and the others are cast
PassUpToUnknown(rule_schema) ==
    LET casted_args == cast_args(rule_schema.params, CASTERS)
    IN  /\ ~casted_args.raised
        /\ \A j \in 1..(Min(UnknownParams(rule_schema)) - 1) :
              ~validate(casted_args.value[j].name, casted_args.value[j].value).raised

\* C17: a schema list with an entry whose params have a name that has no
\* validator makes init_discount_rules_from_schema raise; no constructor is
\* called for that entry or a later one, and no constructor call gets an
\* argument of such a name; the error is the AttributeError of the missing
\* validator when the entries before build their objects and the parameters
\* before it pass.
C17_UnknownParameterFails ==
    LET unknown == WithUnknownParam(call.rule_schemas)
    IN  (/\ SchemasExecuted
         /\ WellFormed(call.rule_schemas)
         /\ unknown # {}) =>
            /\ ret.raised
            /\ Len(constructed) < Min(unknown)
            /\ \A i \in DOMAIN constructed :
                  Names(constructed[i].args) \subseteq get_validators
            /\ (/\ \A k \in 1..(Min(unknown) - 1) :
                      Builds(call.rule_cls, call.rule_schemas[k])
                /\ PassUpToUnknown(call.rule_schemas[Min(unknown)]))
               => ret = Raise("AttributeError")

\* the second entry has the parameter colour, after a valid carrier; the
\* object of the first entry was built and none for the second
C17_Witness ==
    /\ SchemasExecuted
    /\ WellFormed(call.rule_schemas)
    /\ WithUnknownParam(call.rule_schemas) = {2}
    /\ call.rule_schemas[2].name \in Range(call.rule_cls)
    /\ UnknownParams(call.rule_schemas[2]) = {2}
    /\ Len(constructed) = 1
    /\ ret = Raise("AttributeError")

\* the object that the constructor of the class of the entry builds from its
\* params
ObjectOf(rule_schema) ==
    construct(rule_schema.name, cast_args(rule_schema.params, CASTERS).value).value

\* C18: the mapping that init_discount_rules_from_schema returns has one item
\* for each name of the schema list and no other, no two of its objects are
\* of one class, and the object of a name is the one built from the last
\* entry of that name.
C18_LastEntryOfNameKept ==
    (SchemasExecuted /\ ~ret.raised) =>
        LET objects == ret.value
            rule_schemas == call.rule_schemas
        IN  /\ \A i, j \in DOMAIN objects :
                  (\/ objects[i].name = objects[j].name
                   \/ objects[i].rule.cls = objects[j].rule.cls) => i = j
            /\ {objects[i].name : i \in DOMAIN objects}
                  = {rule_schemas[k].name : k \in DOMAIN rule_schemas}
            /\ \A i \in DOMAIN objects :
                  \E k \in DOMAIN rule_schemas :
                      /\ rule_schemas[k].name = objects[i].name
                      /\ \A l \in DOMAIN rule_schemas :
                            rule_schemas[l].name = objects[i].name => l <= k
                      /\ objects[i].rule = ObjectOf(rule_schemas[k])

\* two entries of one name with different params: one object, of the second
C18_Witness ==
    /\ SchemasExecuted
    /\ ~ret.raised
    /\ Len(call.rule_schemas) = 2
    /\ call.rule_schemas[1].name = call.rule_schemas[2].name
    /\ call.rule_schemas[1].params # call.rule_schemas[2].params
    /\ Len(constructed) = 2
    /\ Len(ret.value) = 1
    /\ ret.value[1].rule = ObjectOf(call.rule_schemas[2])
    /\ ret.value[1].rule # ObjectOf(call.rule_schemas[1])

-----------------------------------------------------------------------------
(* Properties of the order of the rule objects (SpecOrder) *)

\* the place of the first entry of rule_schemas that has the name
FirstEntry(rule_schemas, name) ==
    Min({k \in DOMAIN rule_schemas : rule_schemas[k].name = name})

\* the place of the class of the name in rule_cls
Registered(rule_cls, name) ==
    CHOOSE k \in DOMAIN rule_cls : rule_cls[k] = name

\* the rule list that _initialize_discount_rules makes of the mapping:
\* list(map_discount_rules.values())
ValuesOf(objects) == [i \in DOMAIN objects |-> objects[i].rule]

-----------------------------------------------------------------------------
(* Properties of the rule calls that process_transaction makes (Spec) *)

\* the call found a plan for its transaction and went on to the rules
ReachedRules == transaction_obj.valid /\ MatchingPlans(transaction_obj) # {}

\* price_before_discount of the last call: the price of the plan found
BasePrice == shipping_plans[Min(MatchingPlans(transaction_obj))].price

\* C28: in a call that reached the rules, every rule was called and returned;
\* a MatchLowestPackagePrice whose filter the transaction equals returned
\* price_before_discount minus the lowest price of the plans that match the
\* filter, and an EveryNShipmentIsFreeXTimesInAMonth returned 0 or
\* price_before_discount.
C28_DiscountFromBasePrice ==
    ReachedRules =>
        \A k \in DOMAIN rules :
            /\ k \in DOMAIN sizes
            /\ ~sizes[k].raised
            /\ (/\ rules[k].cls = "MatchLowestPackagePrice"
                /\ EqualsFilter(transaction_obj, rules[k].transaction_type))
               => sizes[k] =
                     Return(BasePrice
                            - Min(MatchingPrices(shipping_plans,
                                                 rules[k].transaction_type)))
            /\ rules[k].cls = "EveryNShipmentIsFreeXTimesInAMonth"
               => sizes[k] \in {Return(0), Return(BasePrice)}

====
